---- MODULE Spec2Model ----
(***************************************************************************)
(* Model of the personal-finance backend: the Express routes of            *)
(* backend/server.js over the Transaction and Budget collections, and the  *)
(* forecasting / recommendation helpers of backend/server.js,              *)
(* backend/utils/mlModel.js and backend/utils/recommendations.js.          *)
(*                                                                         *)
(* JavaScript numbers are modelled as exact extended rationals <<n, d>>    *)
(* in lowest terms with d >= 0: d = 0 stands for the IEEE specials         *)
(* (<<0,0>> is NaN, <<1,0>> is +Infinity, <<-1,0>> is -Infinity).          *)
(* Amounts stored in the collections are whole numbers of currency units   *)
(* and are kept as integers until the code divides.                        *)
(***************************************************************************)
EXTENDS Integers, Sequences, FiniteSets, TLC

VARIABLES transactions, budgets, response, returned

vars == <<transactions, budgets, response, returned>>

----------------------------------------------------------------------------
(* JavaScript Number arithmetic                                            *)

RECURSIVE GCD(_, _)
GCD(a, b) == IF b = 0 THEN a ELSE GCD(b, a % b)

Sign(n) == IF n > 0 THEN 1 ELSE IF n < 0 THEN -1 ELSE 0

AbsInt(n) == IF n < 0 THEN -n ELSE n

\* n/d in lowest terms with a non-negative denominator; n/0 is NaN or +-Infinity
Norm(n, d) ==
  IF d = 0 THEN <<Sign(n), 0>>
  ELSE LET g == GCD(AbsInt(n), AbsInt(d))
       IN  <<(Sign(d) * n) \div g, AbsInt(d) \div g>>

Num(i) == <<i, 1>>

NaN == <<0, 0>>

IsNaN(x) == x = NaN

IsFinite(x) == x[2] # 0

Add(x, y) ==
  IF IsNaN(x) \/ IsNaN(y) THEN NaN
  ELSE IF IsFinite(x) /\ IsFinite(y) THEN Norm(x[1] * y[2] + y[1] * x[2], x[2] * y[2])
  ELSE IF ~IsFinite(x) /\ ~IsFinite(y) THEN (IF x = y THEN x ELSE NaN)
  ELSE IF IsFinite(x) THEN y ELSE x

Neg(x) == <<-x[1], x[2]>>

Sub(x, y) == Add(x, Neg(y))

Mul(x, y) ==
  IF IsNaN(x) \/ IsNaN(y) THEN NaN
  ELSE Norm(x[1] * y[1], x[2] * y[2])

\* x / y: a zero divisor gives NaN (0/0) or an infinity, as IEEE division does
Div(x, y) ==
  IF IsNaN(x) \/ IsNaN(y) THEN NaN
  ELSE IF ~IsFinite(x) /\ ~IsFinite(y) THEN NaN
  ELSE LET sy == IF y[1] < 0 THEN -1 ELSE 1
       IN  Norm(x[1] * y[2] * sy, x[2] * AbsInt(y[1]))

\* x < y; every comparison with NaN is false
Less(x, y) ==
  /\ ~IsNaN(x)
  /\ ~IsNaN(y)
  /\ IF IsFinite(x) \/ IsFinite(y) THEN x[1] * y[2] < y[1] * x[2] ELSE x[1] < y[1]

Greater(x, y) == Less(y, x)

\* x <= y
LessEq(x, y) == Less(x, y) \/ (~IsNaN(x) /\ x = y)

\* Math.max / Math.min of two arguments: NaN if either argument is NaN
MathMax(x, y) == IF IsNaN(x) \/ IsNaN(y) THEN NaN ELSE IF Less(x, y) THEN y ELSE x

MathMin(x, y) == IF IsNaN(x) \/ IsNaN(y) THEN NaN ELSE IF Less(y, x) THEN y ELSE x

MathAbs(x) == <<AbsInt(x[1]), x[2]>>

\* Math.round: the nearest integer, halves rounded towards +Infinity
MathRound(x) == IF ~IsFinite(x) THEN x ELSE <<(2 * x[1] + x[2]) \div (2 * x[2]), 1>>

\* Math.round(x * 100) / 100
Round2(x) == Div(MathRound(Mul(x, Num(100))), Num(100))

\* Precision to which Math.sqrt is modelled: results are exact multiples of
\* 1/SqrtScale, rounded down.
SqrtScale == 100

\* Math.sqrt, to 1/SqrtScale: NaN for a negative argument or NaN
MathSqrt(x) ==
  IF IsNaN(x) \/ Less(x, Num(0)) THEN NaN
  ELSE IF ~IsFinite(x) THEN x
  ELSE LET k == (x[1] * SqrtScale * SqrtScale) \div x[2]
           r == CHOOSE r \in 0..k : r * r <= k /\ (r + 1) * (r + 1) > k
       IN  Norm(r, SqrtScale)

----------------------------------------------------------------------------
(* Dates.  A stored date is a UTC calendar date [year, month, day].        *)
(* new Date(d).toISOString().slice(0, 7) is the "YYYY-MM" prefix of the    *)
(* ISO form: the pair <<year, month>>.  Both fields are zero-padded to a   *)
(* fixed width, so the string order Array.prototype.sort() uses on the     *)
(* keys is the lexicographic order of the pairs.                           *)

monthYearOf(date) == <<date.year, date.month>>

KeyLess(a, b) == a[1] < b[1] \/ (a[1] = b[1] /\ a[2] < b[2])

DateLess(a, b) ==
  \/ KeyLess(monthYearOf(a), monthYearOf(b))
  \/ (monthYearOf(a) = monthYearOf(b) /\ a.day < b.day)

\* Object.keys(obj).sort() for an object whose keys are "YYYY-MM" strings
RECURSIVE SortedKeys(_)
SortedKeys(S) ==
  IF S = {} THEN <<>>
  ELSE LET m == CHOOSE k \in S : \A o \in S : ~KeyLess(o, k)
       IN  <<m>> \o SortedKeys(S \ {m})

\* Array.prototype.slice(-n): the last n elements (all of them if fewer)
SliceLast(s, n) == IF Len(s) <= n THEN s ELSE SubSeq(s, Len(s) - n + 1, Len(s))

RECURSIVE SumAmounts(_)
SumAmounts(s) == IF s = <<>> THEN 0 ELSE SumAmounts(SubSeq(s, 1, Len(s) - 1)) + s[Len(s)].amount

RECURSIVE SumSeq(_)
SumSeq(s) == IF s = <<>> THEN 0 ELSE SumSeq(SubSeq(s, 1, Len(s) - 1)) + s[Len(s)]

----------------------------------------------------------------------------
(* server.js helpers                                                       *)

\* getMonthlyDataFrom without the `if (!acc[monthYear])` test: the bucket is
\* reset on every transaction
RECURSIVE getMonthlyDataFrom_resetsBucket(_, _, _)
getMonthlyDataFrom_resetsBucket(acc, ts, i) ==
  IF i > Len(ts) THEN acc
  ELSE LET t == ts[i]
           monthYear == monthYearOf(t.date)
           acc1 == [k \in DOMAIN acc \cup {monthYear} |->
                      IF k = monthYear THEN [expenses |-> 0, income |-> 0] ELSE acc[k]]
           acc2 == IF t.type = "expense"
                   THEN [acc1 EXCEPT ![monthYear].expenses = @ + t.amount]
                   ELSE [acc1 EXCEPT ![monthYear].income = @ + t.amount]
       IN  getMonthlyDataFrom_resetsBucket(acc2, ts, i + 1)

\* getMonthlyData: the reduce over the transactions, from index i on
RECURSIVE getMonthlyDataFrom(_, _, _)
getMonthlyDataFrom(acc, ts, i) ==
  IF i > Len(ts) THEN acc
  ELSE LET t == ts[i]
           monthYear == monthYearOf(t.date)
           acc1 == IF monthYear \in DOMAIN acc THEN acc
                   ELSE acc @@ (monthYear :> [expenses |-> 0, income |-> 0])
           acc2 == IF t.type = "expense"
                   THEN [acc1 EXCEPT ![monthYear].expenses = @ + t.amount]
                   ELSE [acc1 EXCEPT ![monthYear].income = @ + t.amount]
       IN  getMonthlyDataFrom(acc2, ts, i + 1)

EmptyObject == [k \in {} |-> 0]

getMonthlyData(ts) == getMonthlyDataFrom(EmptyObject, ts, 1)

\* calculateAccuracy without the Math.max(0, ...) clamp
calculateAccuracy_noLowerClamp(predicted, actual) ==
  IF actual = Num(0) THEN Num(0)
  ELSE LET accuracy == Mul(Sub(Num(1), Div(MathAbs(Sub(predicted, actual)), actual)), Num(100))
       IN  MathMin(Num(100), accuracy)

\* calculateAccuracy(predicted, actual)
calculateAccuracy(predicted, actual) ==
  IF actual = Num(0) THEN Num(0)
  ELSE LET accuracy == Mul(Sub(Num(1), Div(MathAbs(Sub(predicted, actual)), actual)), Num(100))
       IN  MathMin(Num(100), MathMax(Num(0), accuracy))

RECURSIVE SumSquaredDev(_, _)
SumSquaredDev(data, mean) ==
  IF data = <<>> THEN Num(0)
  ELSE LET dev == Sub(Num(data[Len(data)]), mean)
       IN  Add(SumSquaredDev(SubSeq(data, 1, Len(data) - 1), mean), Mul(dev, dev))

\* calculateConfidence(data): data is a list of monthly expense totals
calculateConfidence(data) ==
  IF Len(data) < 2 THEN Num(0)
  ELSE LET mean == Div(Num(SumSeq(data)), Num(Len(data)))
           variance == Div(SumSquaredDev(data, mean), Num(Len(data)))
           coefficientOfVariation == Div(MathSqrt(variance), mean)
       IN  MathMax(Num(0), MathMin(Num(100), Mul(Sub(Num(1), coefficientOfVariation), Num(100))))

Null == [isNull |-> TRUE]

\* mlUtils.predictNextMonthSpending(transactions)
predictNextMonthSpending(ts) ==
  IF Len(ts) < 3 THEN Null
  ELSE LET monthlyData == getMonthlyData(ts)
           months == SortedKeys(DOMAIN monthlyData)
           recentMonths == SliceLast(months, 3)
           recentExpenses == [i \in 1..Len(recentMonths) |-> monthlyData[recentMonths[i]].expenses]
           prediction == Div(Num(SumSeq(recentExpenses)), Num(3))
           confidence == calculateConfidence(recentExpenses)
       IN  [isNull |-> FALSE, prediction |-> prediction, confidence |-> confidence]

----------------------------------------------------------------------------
(* server.js: recommender, request bodies, validation, persistence         *)

\* The for-loop of mlUtils.generateRecommendations over the budgets from index
\* i on; the message is kept as the values it interpolates
RECURSIVE budgetRecommendationsFrom(_, _, _, _, _)
budgetRecommendationsFrom(recommendations, ts, bs, i, currentMonth) ==
  IF i > Len(bs) THEN recommendations
  ELSE LET budget == bs[i]
           InCategoryThisMonth(t) ==
             /\ t.category = budget.category
             /\ t.type = "expense"
             /\ monthYearOf(t.date) = currentMonth
           categorySpending == SumAmounts(SelectSeq(ts, InCategoryThisMonth))
           pushed == IF categorySpending > budget.amount
                     THEN Append(recommendations,
                                 [category |-> budget.category, priority |-> "high",
                                  overspend |-> categorySpending - budget.amount])
                     ELSE recommendations
       IN  budgetRecommendationsFrom(pushed, ts, bs, i + 1, currentMonth)

\* mlUtils.generateRecommendations(transactions, budgets), with the month of
\* new Date() passed in.  After the loop, line 133 reads the identifier
\* `months`, which no enclosing scope declares: the read throws a
\* ReferenceError and the promise rejects, whatever the loop collected.
mlUtils_generateRecommendations(ts, bs, currentMonth) ==
  LET monthlyData == getMonthlyData(ts)
      currentSpending == IF currentMonth \in DOMAIN monthlyData
                         THEN monthlyData[currentMonth].expenses ELSE 0
      recommendations == budgetRecommendationsFrom(<<>>, ts, bs, 1, currentMonth)
  IN  [threw |-> TRUE, error |-> "ReferenceError: months is not defined"]

\* A JSON value of a request body as far as the amount field needs it: a
\* number, a string (its characters) or absent
JNum(i) == [json |-> "number", num |-> i, str |-> <<>>]

JStr(cs) == [json |-> "string", num |-> 0, str |-> cs]

JUndefined == [json |-> "undefined", num |-> 0, str |-> <<>>]

\* An absent string field.  securityMiddleware strips "<" and ">" from every
\* string of the body, so no field value collides with this marker.
Undefined == "<undefined>"

NoDate == [year |-> 0, month |-> 0, day |-> 0]

DigitValue == ("0" :> 0) @@ ("1" :> 1) @@ ("2" :> 2) @@ ("3" :> 3) @@ ("4" :> 4) @@
              ("5" :> 5) @@ ("6" :> 6) @@ ("7" :> 7) @@ ("8" :> 8) @@ ("9" :> 9)

IsDigits(cs) == cs # <<>> /\ \A i \in 1..Len(cs) : cs[i] \in DOMAIN DigitValue

RECURSIVE DigitsValue(_, _)
DigitsValue(cs, base) ==
  IF cs = <<>> THEN 0
  ELSE DigitsValue(SubSeq(cs, 1, Len(cs) - 1), base) * base + DigitValue[cs[Len(cs)]]

\* The longest prefix of cs made of decimal digits
RECURSIVE DigitPrefix(_)
DigitPrefix(cs) ==
  IF cs = <<>> \/ Head(cs) \notin DOMAIN DigitValue THEN <<>>
  ELSE <<Head(cs)>> \o DigitPrefix(Tail(cs))

\* ToNumber of a string of digits, "-" and "x": the whole string must be a
\* numeric literal (signed decimal, or unsigned 0x hexadecimal); "" is 0
StringToNumber(cs) ==
  IF cs = <<>> THEN Num(0)
  ELSE IF IsDigits(cs) THEN Num(DigitsValue(cs, 10))
  ELSE IF Head(cs) = "-" /\ IsDigits(Tail(cs)) THEN Num(-DigitsValue(Tail(cs), 10))
  ELSE IF Len(cs) >= 3 /\ cs[1] = "0" /\ cs[2] = "x" /\ IsDigits(SubSeq(cs, 3, Len(cs)))
       THEN Num(DigitsValue(SubSeq(cs, 3, Len(cs)), 16))
  ELSE NaN

\* parseFloat of such a string: the longest decimal prefix, NaN if there is none
StringParseFloat(cs) ==
  LET negative == cs # <<>> /\ Head(cs) = "-"
      digits == DigitPrefix(IF negative THEN Tail(cs) ELSE cs)
  IN  IF digits = <<>> THEN NaN
      ELSE Num((IF negative THEN -1 ELSE 1) * DigitsValue(digits, 10))

\* ToNumber(v), as the comparison data.amount <= 0 applies it
ToNumber(v) ==
  CASE v.json = "number" -> Num(v.num)
    [] v.json = "string" -> StringToNumber(v.str)
    [] OTHER -> NaN

\* !v
Falsy(v) ==
  CASE v.json = "number" -> v.num = 0
    [] v.json = "string" -> v.str = <<>>
    [] OTHER -> TRUE

\* parseFloat(v)
parseFloat(v) ==
  CASE v.json = "number" -> Num(v.num)
    [] v.json = "string" -> StringParseFloat(v.str)
    [] OTHER -> NaN

\* String.prototype.toLowerCase().trim() on the category names of the model
toLowerCaseTrim(s) == IF s = "Food" THEN "food" ELSE s

\* dataProcessor.validateTransaction(data)
validateTransaction(data) ==
  LET amountErr == IF Falsy(data.amount) \/ LessEq(ToNumber(data.amount), Num(0))
                   THEN <<"Invalid amount">> ELSE <<>>
      categoryErr == IF data.category \in {"", Undefined} THEN <<"Category is required">> ELSE <<>>
      typeErr == IF data.type \notin {"income", "expense"} THEN <<"Invalid type">> ELSE <<>>
      errors == amountErr \o categoryErr \o typeErr
  IN  [isValid |-> Len(errors) = 0, errors |-> errors]

\* dataProcessor.cleanData(data), with Date.now() passed in; calling
\* toLowerCase on an absent category throws a TypeError
cleanData(data, now) ==
  IF data.category = Undefined THEN [threw |-> TRUE, error |-> "TypeError"]
  ELSE [threw |-> FALSE,
        value |-> [type |-> data.type,
                   amount |-> parseFloat(data.amount),
                   category |-> toLowerCaseTrim(data.category),
                   date |-> IF data.date = NoDate THEN now ELSE data.date]]

\* transactionSchema: type, amount and category are required; a Number path
\* does not cast NaN
transactionSchemaAccepts(d) ==
  /\ d.type \notin {"", Undefined}
  /\ IsFinite(d.amount)
  /\ d.category \notin {"", Undefined}

\* budgetSchema: category and amount are required; type defaults to 'expense'
budgetSchemaAccepts(d) ==
  /\ IsFinite(d.amount)
  /\ d.category \notin {"", Undefined}

\* The stored document: amounts of the model are whole numbers
transactionDoc(d) == [type |-> d.type, amount |-> d.amount[1], category |-> d.category, date |-> d.date]

budgetDoc(d) ==
  [category |-> d.category, amount |-> d.amount[1],
   type |-> IF d.type = Undefined THEN "expense" ELSE d.type]

IsExpense(t) == t.type = "expense"

\* .sort({ date: 1 }) / .sort({ date: -1 }): insert t into an already sorted list
RECURSIVE InsertByDate(_, _, _)
InsertByDate(sorted, t, ascending) ==
  IF sorted = <<>> THEN <<t>>
  ELSE IF (IF ascending THEN DateLess(t.date, Head(sorted).date)
                        ELSE DateLess(Head(sorted).date, t.date))
       THEN <<t>> \o sorted
       ELSE <<Head(sorted)>> \o InsertByDate(Tail(sorted), t, ascending)

RECURSIVE SortByDate(_, _)
SortByDate(ts, ascending) ==
  IF ts = <<>> THEN <<>>
  ELSE InsertByDate(SortByDate(SubSeq(ts, 1, Len(ts) - 1), ascending), ts[Len(ts)], ascending)

\* The for-loop of GET /api/accuracy from index i (1-based; the code's i + 1) on
RECURSIVE accuracyLoop(_, _, _, _)
accuracyLoop(acc, months, monthlyData, i) ==
  IF i > Len(months) THEN acc
  ELSE LET predicted == Div(Num(monthlyData[months[i - 3]].expenses
                                + monthlyData[months[i - 2]].expenses
                                + monthlyData[months[i - 1]].expenses), Num(3))
           actual == Num(monthlyData[months[i]].expenses)
           accuracy == calculateAccuracy(predicted, actual)
           record == [month |-> months[i], predicted |-> Round2(predicted),
                      actual |-> Round2(actual), accuracy |-> Round2(accuracy)]
       IN  accuracyLoop([predictions |-> Append(acc.predictions, record),
                         totalAccuracy |-> Add(acc.totalAccuracy, accuracy),
                         predictionCount |-> acc.predictionCount + 1],
                        months, monthlyData, i + 1)

\* The body GET /api/accuracy answers with for the collection ts
accuracyReport(ts) ==
  LET found == SortByDate(SelectSeq(ts, IsExpense), TRUE)
      monthlyData == getMonthlyData(found)
      months == SortedKeys(DOMAIN monthlyData)
      done == accuracyLoop([predictions |-> <<>>, totalAccuracy |-> Num(0), predictionCount |-> 0],
                           months, monthlyData, 4)
  IN  [predictions |-> SliceLast(done.predictions, 3),
       averageAccuracy |-> IF done.predictionCount > 0
                           THEN MathRound(Div(done.totalAccuracy, Num(done.predictionCount)))
                           ELSE Num(0),
       totalPredictions |-> done.predictionCount]

----------------------------------------------------------------------------
(* utils/mlModel.js                                                        *)

RECURSIVE SumXY(_)
SumXY(ys) == IF ys = <<>> THEN 0 ELSE SumXY(SubSeq(ys, 1, Len(ys) - 1)) + (Len(ys) - 1) * ys[Len(ys)]

RECURSIVE SumXX(_)
SumXX(n) == IF n = 0 THEN 0 ELSE SumXX(n - 1) + (n - 1) * (n - 1)

RECURSIVE SumX(_)
SumX(n) == IF n = 0 THEN 0 ELSE SumX(n - 1) + (n - 1)

\* calculateSpendingPrediction(historicalData): x = 0..n-1, y = the amounts
calculateSpendingPrediction(historicalData) ==
  LET yValues == [i \in 1..Len(historicalData) |-> historicalData[i].amount]
      n == Len(historicalData)
      sumX == SumX(n)
      sumY == SumSeq(yValues)
      sumXY == SumXY(yValues)
      sumXX == SumXX(n)
      slope == Div(Num(n * sumXY - sumX * sumY), Num(n * sumXX - sumX * sumX))
      intercept == Div(Sub(Num(sumY), Mul(slope, Num(sumX))), Num(n))
      nextPrediction == Add(Mul(slope, Num(n + 1)), intercept)
  IN  MathMax(Num(0), Round2(nextPrediction))

----------------------------------------------------------------------------
(* utils/recommendations.js                                                *)

\* Category names that are canonical array indices ("7", "12"), with their
\* numeric values: Object.keys lists such keys first, in ascending numeric
\* order, before the other keys in insertion order.
IntegerKeys == ("7" :> 7) @@ ("12" :> 12)

RECURSIVE SortedIntegerKeys(_)
SortedIntegerKeys(S) ==
  IF S = {} THEN <<>>
  ELSE LET m == CHOOSE k \in S : \A o \in S : IntegerKeys[k] <= IntegerKeys[o]
       IN  <<m>> \o SortedIntegerKeys(S \ {m})

IsStringKey(k) == k \notin DOMAIN IntegerKeys

\* Object.keys(obj) of an object whose properties were created in the order
\* `inserted`
ObjectKeys(inserted) ==
  SortedIntegerKeys({inserted[i] : i \in 1..Len(inserted)} \cap DOMAIN IntegerKeys)
    \o SelectSeq(inserted, IsStringKey)

\* The reduce that builds categoryTotals: `order` lists the keys in creation order
RECURSIVE categoryTotalsFrom(_, _, _)
categoryTotalsFrom(acc, ts, i) ==
  IF i > Len(ts) THEN acc
  ELSE LET curr == ts[i]
           seen == curr.category \in DOMAIN acc.totals
           old == IF seen THEN acc.totals[curr.category] ELSE 0
           totals == [k \in DOMAIN acc.totals \cup {curr.category} |->
                        IF k = curr.category THEN old + curr.amount ELSE acc.totals[k]]
           order == IF seen THEN acc.order ELSE Append(acc.order, curr.category)
       IN  categoryTotalsFrom([totals |-> totals, order |-> order], ts, i + 1)

\* reduceTopCategory with >= for >: the earlier key is kept on a tie
RECURSIVE reduceTopCategory_keepsOnTie(_, _, _, _)
reduceTopCategory_keepsOnTie(a, keys, i, categoryTotals) ==
  IF i > Len(keys) THEN a
  ELSE LET b == keys[i]
       IN  reduceTopCategory_keepsOnTie(IF categoryTotals[a] >= categoryTotals[b] THEN a ELSE b,
                                        keys, i + 1, categoryTotals)

\* keys.reduce((a, b) => categoryTotals[a] > categoryTotals[b] ? a : b), with
\* a the accumulator so far and the keys from index i on still to visit
RECURSIVE reduceTopCategory(_, _, _, _)
reduceTopCategory(a, keys, i, categoryTotals) ==
  IF i > Len(keys) THEN a
  ELSE LET b == keys[i]
       IN  reduceTopCategory(IF categoryTotals[a] > categoryTotals[b] THEN a ELSE b,
                             keys, i + 1, categoryTotals)

\* findTopExpenseCategory(transactions): reduce without an initial value
\* throws a TypeError on an empty array
findTopExpenseCategory(ts) ==
  LET built == categoryTotalsFrom([totals |-> EmptyObject, order |-> <<>>], SelectSeq(ts, IsExpense), 1)
      keys == ObjectKeys(built.order)
  IN  IF keys = <<>> THEN [threw |-> TRUE, error |-> "TypeError"]
      ELSE [threw |-> FALSE, value |-> reduceTopCategory(keys[1], keys, 2, built.totals)]

\* generateRecommendations(transactions, monthlyBudget) of recommendations.js;
\* the message is kept as the values it interpolates
generateRecommendations(ts, monthlyBudget) ==
  LET totalSpent == SumAmounts(SelectSeq(ts, IsExpense))
      surplus == monthlyBudget - totalSpent
  IN  IF surplus > 0
      THEN [threw |-> FALSE, type |-> "positive", amount |-> surplus, category |-> "none"]
      ELSE LET topExpenseCategory == findTopExpenseCategory(ts)
           IN  IF topExpenseCategory.threw
               THEN [threw |-> TRUE, error |-> topExpenseCategory.error]
               ELSE [threw |-> FALSE, type |-> "warning", amount |-> AbsInt(surplus),
                     category |-> topExpenseCategory.value]

----------------------------------------------------------------------------
(* Input universe                                                          *)

\* Longest transaction list handed to a helper
MaxTx == 3

\* Number of consecutive calendar months the helpers' dates are drawn from
NumMonths == 3

\* The i-th month of the window, which starts at 2023-11 and so crosses a
\* year boundary
MonthAt(i) == <<2023 + ((9 + i) \div 12), ((9 + i) % 12) + 1>>

DateOf(i, d) == [year |-> MonthAt(i)[1], month |-> MonthAt(i)[2], day |-> d]

\* The first day of every month of the window, and a second day of the first
Dates == {DateOf(i, 1) : i \in 1..NumMonths} \cup {DateOf(1, 15)}

Amounts == {1, 2}

Types == {"income", "expense"}

RECURSIVE ListsUpTo(_, _)
ListsUpTo(S, n) ==
  IF n = 0 THEN {<<>>}
  ELSE LET shorter == ListsUpTo(S, n - 1)
       IN  shorter \cup {Append(l, x) : l \in {l \in shorter : Len(l) = n - 1}, x \in S}

\* Every call result is a record tagged with the function called; results of
\* different kinds sit in differently named fields
NoCall == [fn |-> "none"]

NoResponse == [route |-> "none", status |-> 0]

----------------------------------------------------------------------------
(* The HTTP server over its two collections                                *)

\* Most documents the Transaction / Budget collection holds
MaxStored == 2

MaxStoredBudgets == 2

\* The clock readings of Date.now() / new Date()
Clock == {DateOf(2, 1)}

RawAmounts ==
  {JNum(2), JNum(0), JNum(-2),
   JStr(<<"0", "x", "2">>), JStr(<<"-", "2", "x">>), JStr(<<"x">>)}

TransactionBodies ==
  [type : {"income", "expense", "gift"}, amount : RawAmounts,
   category : {"Food", ""}, date : {DateOf(1, 1), NoDate}]

BudgetBodies ==
  [type : {Undefined}, amount : RawAmounts, category : {"Food", Undefined}, date : {NoDate}]

Init ==
  /\ transactions = <<>>
  /\ budgets = <<>>
  /\ response = NoResponse
  /\ returned = NoCall

\* POST /api/transactions
PostTransaction ==
  /\ Len(transactions) < MaxStored
  /\ \E body \in TransactionBodies, now \in Clock :
       LET validation == validateTransaction(body)
           cleanedData == cleanData(body, now)
       IN  IF ~validation.isValid
           THEN /\ response' = [route |-> "POST /api/transactions", status |-> 400,
                                body |-> [errors |-> validation.errors]]
                /\ UNCHANGED transactions
           ELSE IF cleanedData.threw \/ ~transactionSchemaAccepts(cleanedData.value)
           THEN /\ response' = [route |-> "POST /api/transactions", status |-> 400,
                                body |-> [message |-> "error"]]
                /\ UNCHANGED transactions
           ELSE /\ transactions' = Append(transactions, transactionDoc(cleanedData.value))
                /\ response' = [route |-> "POST /api/transactions", status |-> 201,
                                body |-> transactionDoc(cleanedData.value)]
  /\ UNCHANGED <<budgets, returned>>

\* POST /api/budgets
PostBudget ==
  /\ Len(budgets) < MaxStoredBudgets
  /\ \E body \in BudgetBodies, now \in Clock :
       LET cleanedData == cleanData(body, now)
       IN  IF cleanedData.threw \/ ~budgetSchemaAccepts(cleanedData.value)
           THEN /\ response' = [route |-> "POST /api/budgets", status |-> 400,
                                body |-> [message |-> "error"]]
                /\ UNCHANGED budgets
           ELSE /\ budgets' = Append(budgets, budgetDoc(cleanedData.value))
                /\ response' = [route |-> "POST /api/budgets", status |-> 201,
                                body |-> budgetDoc(cleanedData.value)]
  /\ UNCHANGED <<transactions, returned>>

\* GET /api/analysis
GetAnalysis ==
  /\ \E now \in Clock :
       LET found == SortByDate(transactions, FALSE)
           prediction == predictNextMonthSpending(found)
           recommendations == mlUtils_generateRecommendations(found, budgets, monthYearOf(now))
       IN  response' =
             IF recommendations.threw
             THEN [route |-> "GET /api/analysis", status |-> 500,
                   body |-> [message |-> recommendations.error]]
             ELSE [route |-> "GET /api/analysis", status |-> 200,
                   body |-> [prediction |-> prediction,
                             recommendations |-> recommendations.value,
                             monthlyTrends |-> getMonthlyData(found)]]
  /\ UNCHANGED <<transactions, budgets, returned>>

\* GET /api/accuracy
GetAccuracy ==
  /\ response' = [route |-> "GET /api/accuracy", status |-> 200,
                  body |-> accuracyReport(transactions)]
  /\ UNCHANGED <<transactions, budgets, returned>>

Next == PostTransaction \/ PostBudget \/ GetAnalysis \/ GetAccuracy

Spec == Init /\ [][Next]_vars

----------------------------------------------------------------------------
(* GET /api/accuracy over collections that span several months             *)

\* Number of consecutive months the collection's transactions may fall in
BacktestMonths == 7

\* What one month holds: nothing, one expense, an income and two expenses,
\* or one expense of amount 0
MonthContents(i) ==
  { <<>>,
    <<[type |-> "expense", amount |-> 100, category |-> "food", date |-> DateOf(i, 1)]>>,
    <<[type |-> "expense", amount |-> 200, category |-> "rent", date |-> DateOf(i, 15)],
      [type |-> "income", amount |-> 50, category |-> "salary", date |-> DateOf(i, 1)],
      [type |-> "expense", amount |-> 100, category |-> "food", date |-> DateOf(i, 1)]>>,
    <<[type |-> "expense", amount |-> 0, category |-> "food", date |-> DateOf(i, 1)]>> }

\* The collections that hold one of MonthContents for each of the first n
\* months, the latest month inserted first
RECURSIVE Collections(_)
Collections(n) ==
  IF n = 0 THEN {<<>>}
  ELSE {m \o c : m \in MonthContents(n), c \in Collections(n - 1)}

InitBacktest ==
  /\ transactions \in Collections(BacktestMonths)
  /\ budgets = <<>>
  /\ response = NoResponse
  /\ returned = NoCall

NextBacktest == GetAccuracy

SpecBacktest == InitBacktest /\ [][NextBacktest]_vars

----------------------------------------------------------------------------
(* Aggregator and moving-average predictor applied to arbitrary lists      *)

InitAggregator ==
  /\ transactions \in ListsUpTo([type : Types, amount : Amounts, category : {"food"}, date : Dates], MaxTx)
  /\ budgets = <<>>
  /\ response = NoResponse
  /\ returned = NoCall

CallGetMonthlyData ==
  /\ returned' = [fn |-> "getMonthlyData", monthlyData |-> getMonthlyData(transactions)]
  /\ UNCHANGED <<transactions, budgets, response>>

CallPredictNextMonthSpending ==
  /\ returned' = [fn |-> "predictNextMonthSpending", value |-> predictNextMonthSpending(transactions)]
  /\ UNCHANGED <<transactions, budgets, response>>

NextAggregator == CallGetMonthlyData \/ CallPredictNextMonthSpending

SpecAggregator == InitAggregator /\ [][NextAggregator]_vars

----------------------------------------------------------------------------
(* Linear-regression predictor applied to chronological lists of amounts   *)

\* Longest history handed to calculateSpendingPrediction
MaxHistory == 4

HistoryAmounts == {0, 1, 2, 3}

\* The chronological history whose i-th amount is ys[i]
HistoryOf(ys) ==
  [i \in 1..Len(ys) |->
     [type |-> "expense", amount |-> ys[i], category |-> "food", date |-> DateOf(i, 1)]]

InitRegression ==
  /\ transactions \in {HistoryOf(ys) : ys \in ListsUpTo(HistoryAmounts, MaxHistory)}
  /\ budgets = <<>>
  /\ response = NoResponse
  /\ returned = NoCall

CallCalculateSpendingPrediction ==
  /\ returned' = [fn |-> "calculateSpendingPrediction",
                  value |-> calculateSpendingPrediction(transactions)]
  /\ UNCHANGED <<transactions, budgets, response>>

NextRegression == CallCalculateSpendingPrediction

SpecRegression == InitRegression /\ [][NextRegression]_vars

----------------------------------------------------------------------------
(* Surplus-mode recommender applied to arbitrary lists                     *)

SurplusCategories == {"food", "rent", "7", "12"}

MonthlyBudgets == {0, 2, 5}

InitSurplus ==
  /\ transactions \in ListsUpTo([type : Types, amount : Amounts, category : SurplusCategories,
                                  date : {DateOf(1, 1)}], MaxTx)
  /\ budgets = <<>>
  /\ response = NoResponse
  /\ returned = NoCall

CallGenerateRecommendations ==
  /\ \E monthlyBudget \in MonthlyBudgets :
       returned' = [fn |-> "generateRecommendations", monthlyBudget |-> monthlyBudget,
                    value |-> generateRecommendations(transactions, monthlyBudget)]
  /\ UNCHANGED <<transactions, budgets, response>>

NextSurplus == CallGenerateRecommendations

SpecSurplus == InitSurplus /\ [][NextSurplus]_vars

----------------------------------------------------------------------------
(* Vocabulary of the properties: totals taken directly over the list       *)

RECURSIVE AmountOver(_, _)
AmountOver(ts, I) ==
  IF I = {} THEN 0
  ELSE LET i == CHOOSE j \in I : TRUE
       IN  ts[i].amount + AmountOver(ts, I \ {i})

Indices(ts) == 1..Len(ts)

MonthsPresent(ts) == {monthYearOf(ts[i].date) : i \in Indices(ts)}

InMonth(ts, k) == {i \in Indices(ts) : monthYearOf(ts[i].date) = k}

ExpensesIn(ts, k) == {i \in InMonth(ts, k) : ts[i].type = "expense"}

\* The n latest months of S
LatestMonths(S, n) == {k \in S : Cardinality({o \in S : KeyLess(k, o)}) < n}

InRange0To100(x) == ~IsNaN(x) /\ LessEq(Num(0), x) /\ LessEq(x, Num(100))

----------------------------------------------------------------------------
(* Properties of the aggregator and the moving-average predictor           *)
(* (SpecAggregator)                                                        *)

\* C5: getMonthlyData returns one bucket per calendar month present in the
\* list and none for any other month; a bucket's expenses is the sum of the
\* amounts of that month's expense transactions, its income the sum of the
\* amounts of that month's other transactions, and the two add up to the sum
\* of all that month's amounts, whatever the order of the list.
C5_AggregatorBuckets ==
  returned.fn = "getMonthlyData" =>
    LET monthlyData == returned.monthlyData
    IN  /\ DOMAIN monthlyData = MonthsPresent(transactions)
        /\ \A k \in DOMAIN monthlyData :
              /\ monthlyData[k].expenses = AmountOver(transactions, ExpensesIn(transactions, k))
              /\ monthlyData[k].income =
                   AmountOver(transactions, InMonth(transactions, k) \ ExpensesIn(transactions, k))
              /\ monthlyData[k].expenses + monthlyData[k].income =
                   AmountOver(transactions, InMonth(transactions, k))

\* C5 witness: an aggregation of a list that is not in date order, spans two
\* months and has a month with both an expense and an income
C5_Witness ==
  /\ returned.fn = "getMonthlyData"
  /\ Cardinality(DOMAIN returned.monthlyData) >= 2
  /\ \E k \in DOMAIN returned.monthlyData :
        returned.monthlyData[k].expenses > 0 /\ returned.monthlyData[k].income > 0
  /\ \E i, j \in Indices(transactions) : i < j /\ DateLess(transactions[j].date, transactions[i].date)

\* C2: predictNextMonthSpending returns null exactly when the transactions
\* fall in fewer than 3 distinct calendar months, whatever their number.
C2_UnavailableBelowThreeMonths ==
  returned.fn = "predictNextMonthSpending" =>
    (returned.value.isNull <=> Cardinality(MonthsPresent(transactions)) < 3)

\* C9: a returned prediction carries a confidence that is a number in 0..100,
\* and that is 0 when the recent monthly expense totals are all 0 (their mean
\* is 0).
C9_ConfidenceInRange ==
  (returned.fn = "predictNextMonthSpending" /\ ~returned.value.isNull) =>
    LET recent == LatestMonths(MonthsPresent(transactions), 3)
        meanIsZero == \A k \in recent : AmountOver(transactions, ExpensesIn(transactions, k)) = 0
    IN  /\ InRange0To100(returned.value.confidence)
        /\ meanIsZero => returned.value.confidence = Num(0)

----------------------------------------------------------------------------
(* Properties of the linear-regression predictor (SpecRegression)          *)

IsArithmetic(ts) ==
  \A i \in 2..Len(ts) : ts[i].amount - ts[i - 1].amount = ts[2].amount - ts[1].amount

\* C3: on an exactly linear series a, a+d, ..., a+(n-1)d (n >= 2) with
\* a+n*d >= 0, calculateSpendingPrediction returns the line's value at x = n,
\* a+n*d; for [10, 20, 30] that is 40.
C3_RegressionAtNextIndex ==
  (/\ returned.fn = "calculateSpendingPrediction"
   /\ Len(transactions) >= 2
   /\ IsArithmetic(transactions)) =>
    LET a == transactions[1].amount
        d == transactions[2].amount - transactions[1].amount
        n == Len(transactions)
    IN  a + n * d >= 0 => returned.value = Num(a + n * d)

\* C8: calculateSpendingPrediction never returns NaN, and returns 0 for an
\* empty list and for a list of one amount (zero least-squares denominator).
C8_DegenerateIsZero ==
  returned.fn = "calculateSpendingPrediction" =>
    /\ ~IsNaN(returned.value)
    /\ Len(transactions) <= 1 => returned.value = Num(0)

----------------------------------------------------------------------------
(* Properties of the surplus-mode recommender (SpecSurplus)                *)

ExpenseIndices(ts) == {i \in Indices(ts) : ts[i].type = "expense"}

ExpenseCategories(ts) == {ts[i].category : i \in ExpenseIndices(ts)}

CategoryExpense(ts, c) == AmountOver(ts, {i \in ExpenseIndices(ts) : ts[i].category = c})

\* The expense categories with the highest total
TopCategories(ts) ==
  {c \in ExpenseCategories(ts) :
     \A o \in ExpenseCategories(ts) : CategoryExpense(ts, o) <= CategoryExpense(ts, c)}

\* Index of the first expense transaction of category c
FirstExpenseOf(ts, c) ==
  CHOOSE i \in ExpenseIndices(ts) :
    /\ ts[i].category = c
    /\ \A j \in ExpenseIndices(ts) : ts[j].category = c => i <= j

\* c comes before o in the key order of the totals object: integer-like names
\* first, ascending by value, then the other names by first expense
KeyBefore(ts, c, o) ==
  IF c \in DOMAIN IntegerKeys
  THEN o \notin DOMAIN IntegerKeys \/ IntegerKeys[c] < IntegerKeys[o]
  ELSE o \notin DOMAIN IntegerKeys /\ FirstExpenseOf(ts, c) < FirstExpenseOf(ts, o)

IsWarning == returned.fn = "generateRecommendations" /\ ~returned.value.threw /\ returned.value.type = "warning"

\* C6: for every list and every monthlyBudget the surplus-mode recommender
\* returns one message without raising: 'positive' with the surplus when
\* monthlyBudget - totalExpenses > 0, otherwise 'warning' with the overspend
\* and an expense category of highest total.
C6_SurplusAlwaysOneMessage ==
  returned.fn = "generateRecommendations" =>
    LET surplus == returned.monthlyBudget - AmountOver(transactions, ExpenseIndices(transactions))
    IN  /\ ~returned.value.threw
        /\ IF surplus > 0
           THEN returned.value.type = "positive" /\ returned.value.amount = surplus
           ELSE /\ returned.value.type = "warning"
                /\ returned.value.amount = -surplus
                /\ returned.value.category \in TopCategories(transactions)

\* C10 as stated: when several expense categories share the highest total,
\* the warning names the one whose first expense transaction comes earliest.
C10_FirstEncounteredWins ==
  (IsWarning /\ Cardinality(TopCategories(transactions)) >= 2) =>
    \A o \in TopCategories(transactions) :
      FirstExpenseOf(transactions, returned.value.category) <= FirstExpenseOf(transactions, o)

\* C10 amended: when several expense categories share the highest total, the
\* warning names the one of them that comes last in the key order of the
\* totals object; when none of them has an integer-like name, that is the
\* one whose first expense transaction comes latest in the list.
C10_LastKeyWins ==
  (IsWarning /\ Cardinality(TopCategories(transactions)) >= 2) =>
    LET top == TopCategories(transactions)
        named == returned.value.category
    IN  /\ named \in top
        /\ \A o \in top \ {named} : KeyBefore(transactions, o, named)
        /\ top \cap DOMAIN IntegerKeys = {} =>
             \A o \in top : FirstExpenseOf(transactions, o) <= FirstExpenseOf(transactions, named)

\* C10 witness: a warning on a list with three tied top categories, one of
\* them integer-like
C10_Witness ==
  /\ IsWarning
  /\ Cardinality(TopCategories(transactions)) >= 3
  /\ TopCategories(transactions) \cap DOMAIN IntegerKeys # {}
  /\ TopCategories(transactions) \ DOMAIN IntegerKeys # {}

----------------------------------------------------------------------------
(* Properties of the backtest of GET /api/accuracy (SpecBacktest)          *)

ExpenseMonths(ts) == {monthYearOf(ts[i].date) : i \in ExpenseIndices(ts)}

\* The r-th month, in chronological order, that has expense transactions
ExpenseMonthAt(ts, r) ==
  CHOOSE k \in ExpenseMonths(ts) : Cardinality({o \in ExpenseMonths(ts) : KeyLess(o, k)}) = r - 1

ExpenseAt(ts, r) == AmountOver(ts, ExpensesIn(ts, ExpenseMonthAt(ts, r)))

\* Mean of the expenses of the 3 months before the r-th
MeanBefore(ts, r) == Div(Num(ExpenseAt(ts, r - 3) + ExpenseAt(ts, r - 2) + ExpenseAt(ts, r - 1)), Num(3))

\* clamp(0, 100, (1 - |predicted - actual| / actual) * 100), 0 when actual is 0
AccuracyAt(ts, r) ==
  LET actual == ExpenseAt(ts, r)
      raw == Mul(Sub(Num(1), Div(MathAbs(Sub(MeanBefore(ts, r), Num(actual))), Num(actual))), Num(100))
  IN  IF actual = 0 THEN Num(0)
      ELSE IF Less(raw, Num(0)) THEN Num(0)
      ELSE IF Less(Num(100), raw) THEN Num(100)
      ELSE raw

RECURSIVE AccuracySum(_, _)
AccuracySum(ts, r) == IF r < 4 THEN Num(0) ELSE Add(AccuracySum(ts, r - 1), AccuracyAt(ts, r))

RecordCount(ts) == IF Cardinality(ExpenseMonths(ts)) > 3 THEN Cardinality(ExpenseMonths(ts)) - 3 ELSE 0

MeanAccuracy(ts) ==
  IF RecordCount(ts) = 0 THEN Num(0)
  ELSE Div(AccuracySum(ts, Cardinality(ExpenseMonths(ts))), Num(RecordCount(ts)))

IsAccuracyResponse == response.route = "GET /api/accuracy" /\ response.status = 200

\* The response lists the last 3 records (all of them if fewer), the j-th
\* listed being the record of the month of rank M - listed + j
ReportsLastThree(Expected(_)) ==
  LET M == Cardinality(ExpenseMonths(transactions))
      listed == IF RecordCount(transactions) < 3 THEN RecordCount(transactions) ELSE 3
  IN  /\ Len(response.body.predictions) = listed
      /\ \A j \in 1..listed : response.body.predictions[j] = Expected(M - listed + j)

ExactRecord(r) ==
  [month |-> ExpenseMonthAt(transactions, r), predicted |-> MeanBefore(transactions, r),
   actual |-> Num(ExpenseAt(transactions, r)), accuracy |-> AccuracyAt(transactions, r)]

RoundedRecord(r) ==
  [month |-> ExpenseMonthAt(transactions, r), predicted |-> Round2(MeanBefore(transactions, r)),
   actual |-> Num(ExpenseAt(transactions, r)), accuracy |-> Round2(AccuracyAt(transactions, r))]

----------------------------------------------------------------------------
(* Properties of the server (Spec)                                         *)

\* C7: every stored transaction and budget has amount > 0 and every stored
\* transaction has type income or expense.
C7_StoredAreValid ==
  /\ \A i \in Indices(transactions) :
        transactions[i].amount > 0 /\ transactions[i].type \in {"income", "expense"}
  /\ \A i \in Indices(budgets) : budgets[i].amount > 0

OverBudget(b, currentMonth) ==
  AmountOver(transactions,
             {i \in ExpensesIn(transactions, currentMonth) : transactions[i].category = b.category})
    > b.amount

IsHigh(r) == r.priority = "high"

\* C1: the recommender returns normally; its list holds, in budget order, one
\* high-priority recommendation per budget whose current-month expenses in
\* its category exceed its amount, none for the other budgets, and after
\* them at most one medium-priority 'general' recommendation.
C1_RecommendationsPerBudget ==
  response.route = "GET /api/analysis" =>
    /\ response.status = 200
    /\ \E now \in Clock :
         LET recs == response.body.recommendations
             high == SelectSeq(recs, IsHigh)
             over == SelectSeq(budgets, LAMBDA b : OverBudget(b, monthYearOf(now)))
         IN  /\ Len(high) = Len(over)
             /\ \A i \in 1..Len(over) :
                   /\ recs[i].category = over[i].category
                   /\ recs[i].priority = "high"
                   /\ recs[i].overspend =
                        AmountOver(transactions,
                                   {j \in ExpensesIn(transactions, monthYearOf(now)) :
                                      transactions[j].category = over[i].category}) - over[i].amount
             /\ Len(recs) <= Len(over) + 1
             /\ Len(recs) = Len(over) + 1 =>
                  recs[Len(recs)].category = "general" /\ recs[Len(recs)].priority = "medium"

====
